---- MODULE Spec2Model ----
(***************************************************************************)
(* Model of server/distributed_execution.py: DistributedExecution.map and  *)
(* the websocket callbacks _on_new_client, _on_client_lost, _on_message    *)
(* and _on_get_result.                                                     *)
(*                                                                         *)
(* map runs in the caller's thread; the callbacks run in the websocket     *)
(* server's per-connection threads (Thread(target=serve_forever), line     *)
(* 117).  Nothing in the source locks the shared lists, so the threads     *)
(* interleave between statements: one step of the model is one statement   *)
(* that reads or writes a shared list.                                     *)
(*                                                                         *)
(* A task (index, payload) is modelled by its index; the payload of index  *)
(* i is Input(i).  A ClientTask object is a record with an identity field  *)
(* "id" (object identity) and a ghost field "sent" (the clock at line 136, *)
(* read by no action).                                                     *)
(***************************************************************************)
EXTENDS Integers, Sequences, FiniteSets, TLC

\* ---- bounds ----
\* connections accepted during the session
NClients == 2
\* len(values) is at most MaxN, chunk_size at most MaxChunk
MaxN == 2
MaxChunk == 2
\* the clock runs from 0 to MaxTime (seconds)
MaxTime == 2
\* ready messages sent by the clients and result messages sent to a session
\* that is not active, in all
MaxReadyMsgs == 1
\* timeout_in_seconds (line 71; 60 by default), scaled to the clock
TimeoutSecs == 1

Clients == 1..NClients
NoClient == 0
NoTask == -1

\* values of the caller: input i, and the function of benchmarks/test.py
Input(i) == MaxN + 1 - i
square(v) == v * v
Result(i) == square(Input(i))

VARIABLES
    mpc,            \* position of map
    n,              \* len(values) at entry
    chunk_size,
    values,         \* local list of map: tasks not yet queued
    tasks,          \* self._tasks
    client_tasks,   \* self._client_tasks
    clients_ready,  \* self._clients_ready
    completed,      \* self._completed
    is_active,      \* self._is_active
    map_function,   \* self._map_function is set
    serving,        \* the websocket server thread accepts connections
    now,            \* time()
    last_time,      \* local of map
    delta,          \* local of map
    client,         \* local of map (line 132)
    cnt,            \* iterations left of the for loop at line 133
    task,           \* local of map (line 134)
    k,              \* position of the iteration at line 151
    timed_out,      \* local of map (line 153)
    actual_completed, \* local of map (line 164); the returned list
    seq,            \* number of ClientTask objects created so far
    hpc,            \* position of each connection's handler thread
    hidx,           \* decoded_result[0] of the handler
    hfound,         \* client_task[0] of the handler (id of the object)
    funcSent,       \* number of function messages sent to each client
    received,       \* indices of the data messages that reached each client
    readyMsgs       \* number of ready messages sent so far, and of result
                    \* messages ignored at line 213

vars == <<mpc, n, chunk_size, values, tasks, client_tasks, clients_ready,
          completed, is_active, map_function, serving, now, last_time, delta,
          client, cnt, task, k, timed_out, actual_completed, seq, hpc,
          hidx, hfound, funcSent, received, readyMsgs>>

loopVars == <<last_time, delta, client, cnt, task, k, timed_out>>
handlerVars == <<hpc, hidx, hfound>>
sessionVars == <<n, chunk_size, is_active, map_function, serving>>

\* ---- helpers ----
Min(a, b) == IF a < b THEN a ELSE b
Range(s) == {s[j] : j \in DOMAIN s}
RemoveAt(s, j) == SubSeq(s, 1, j - 1) \o SubSeq(s, j + 1, Len(s))

\* position of the first element of s that is the object id, 0 if none
PosOfId(s, id) ==
    IF \E j \in DOMAIN s : s[j].id = id
    THEN CHOOSE j \in DOMAIN s : s[j].id = id /\ \A m \in 1..(j - 1) : s[m].id # id
    ELSE 0

\* position of the first element of s equal to x, 0 if none
PosOf(s, x) ==
    IF \E j \in DOMAIN s : s[j] = x
    THEN CHOOSE j \in DOMAIN s : s[j] = x /\ \A m \in 1..(j - 1) : s[m] # x
    ELSE 0

InFlightIdx == {client_tasks[j].task : j \in DOMAIN client_tasks}
CompletedIdx == {completed[j][1] : j \in DOMAIN completed}
Connected(w) == hpc[w] \notin {"absent", "gone", "l_error"}

\* sorted(self._completed): tuples compare by index, then by value
PairLess(a, b) == a[1] < b[1] \/ (a[1] = b[1] /\ a[2] < b[2])
RECURSIVE Insert(_, _)
Insert(x, s) ==
    IF s = <<>> THEN <<x>>
    ELSE IF PairLess(x, Head(s)) THEN <<x>> \o s
    ELSE <<Head(s)>> \o Insert(x, Tail(s))
RECURSIVE sorted(_)
sorted(s) == IF s = <<>> THEN <<>> ELSE Insert(Head(s), sorted(Tail(s)))

\* [d for _, d in sorted(self._completed)]
ActualCompleted(c) == [j \in 1..Len(c) |-> sorted(c)[j][2]]

Init ==
    /\ mpc = "m_start"
    /\ n \in 0..MaxN
    /\ chunk_size \in 1..MaxChunk
    /\ values = <<>>
    /\ tasks = <<>>
    /\ client_tasks = <<>>
    /\ clients_ready = <<>>
    /\ completed = <<>>
    /\ is_active = FALSE
    /\ map_function = FALSE
    /\ serving = FALSE
    /\ now = 0
    /\ last_time = 0
    /\ delta = 0
    /\ client = NoClient
    /\ cnt = 0
    /\ task = NoTask
    /\ k = 0
    /\ timed_out = <<>>
    /\ actual_completed = <<>>
    /\ seq = 0
    /\ hpc = [w \in Clients |-> "absent"]
    /\ hidx = [w \in Clients |-> NoTask]
    /\ hfound = [w \in Clients |-> 0]
    /\ funcSent = [w \in Clients |-> 0]
    /\ received = [w \in Clients |-> {}]
    /\ readyMsgs = 0

\* ---------------------------------------------------------------------
\* DistributedExecution.map
\* ---------------------------------------------------------------------

\* lines 108-123: enumerate the values, set the function, start the server
MapStart ==
    /\ mpc = "m_start"
    /\ values' = [j \in 1..n |-> j - 1]
    /\ map_function' = TRUE
    /\ last_time' = now
    /\ serving' = TRUE
    /\ mpc' = "m_active"
    /\ UNCHANGED <<n, chunk_size, tasks, client_tasks, clients_ready, completed,
                   is_active, now, delta, client, cnt, task, k, timed_out,
                   actual_completed, seq, handlerVars, funcSent, received,
                   readyMsgs>>

\* line 125
MapActivate ==
    /\ mpc = "m_active"
    /\ is_active' = TRUE
    /\ mpc' = "m_bcast"
    /\ UNCHANGED <<n, chunk_size, values, tasks, client_tasks, clients_ready,
                   completed, map_function, serving, now, loopVars,
                   actual_completed, seq, handlerVars, funcSent, received,
                   readyMsgs>>

\* line 126: send_message_to_all
MapBroadcast ==
    /\ mpc = "m_bcast"
    /\ funcSent' = [w \in Clients |->
                      IF Connected(w) THEN funcSent[w] + 1 ELSE funcSent[w]]
    /\ mpc' = "m_loop"
    /\ UNCHANGED <<sessionVars, values, tasks, client_tasks, clients_ready,
                   completed, now, loopVars, actual_completed, seq,
                   handlerVars, received, readyMsgs>>

\* mutant: the refill loop moves every value, whatever chunk_size is
Refill_All(t, v, c) == <<t \o v, <<>>>>

\* lines 161-162: tasks and values after the refill loop
RECURSIVE Refill(_, _, _)
Refill(t, v, c) ==
    IF v # <<>> /\ Len(t) < c
    THEN Refill(Append(t, Head(v)), Tail(v), c)
    ELSE <<t, v>>

\* line 129: the condition of the dispatch loop
DrainCondition(t, v, c) == Len(t) >= c \/ (v = <<>> /\ t # <<>>)

\* mutant: the body is entered before the condition is looked at
LoopCondition_Always(t, v, ct) == TRUE

\* line 128: the condition of the main loop
LoopCondition(t, v, ct) == t # <<>> \/ v # <<>> \/ ct # <<>>

\* lines 128-129: the loop condition, then the condition of the dispatch loop
\* (tasks and values are read and written by map alone)
MapLoop ==
    /\ mpc = "m_loop"
    /\ mpc' = IF LoopCondition(tasks, values, client_tasks)
              THEN IF DrainCondition(tasks, values, chunk_size)
                   THEN "m_wait" ELSE "m_time"
              ELSE "m_collect"
    /\ UNCHANGED <<sessionVars, values, tasks, client_tasks, clients_ready,
                   completed, now, loopVars, actual_completed, seq,
                   handlerVars, funcSent, received, readyMsgs>>

\* lines 130-131: spin until a client is ready
MapWait ==
    /\ mpc = "m_wait"
    /\ clients_ready # <<>>
    /\ mpc' = "m_pop"
    /\ UNCHANGED <<sessionVars, values, tasks, client_tasks, clients_ready,
                   completed, now, loopVars, actual_completed, seq,
                   handlerVars, funcSent, received, readyMsgs>>

\* mutant: pop() takes the client that became ready last
NextClientPos_Last(q) == Len(q)

\* line 132: pop(0) takes the client at the head of the ready queue
NextClientPos(q) == 1

\* lines 132-133: pop(0) raises IndexError on an empty list; range() is
\* evaluated once
MapPop ==
    /\ mpc = "m_pop"
    /\ IF clients_ready = <<>>
       THEN /\ mpc' = "m_error"
            /\ UNCHANGED <<clients_ready, client, cnt>>
       ELSE /\ client' = clients_ready[NextClientPos(clients_ready)]
            /\ clients_ready' = RemoveAt(clients_ready,
                                         NextClientPos(clients_ready))
            /\ cnt' = Min(chunk_size, Len(tasks))
            /\ mpc' = "m_for"
    /\ UNCHANGED <<sessionVars, values, tasks, client_tasks, completed, now,
                   last_time, delta, task, k, timed_out, actual_completed, seq,
                   handlerVars, funcSent, received, readyMsgs>>

\* lines 136-142: the ClientTask created for a dispatch
NewClientTask(id, c, t, ttl, at) ==
    [id |-> id, client |-> c, task |-> t, time_to_live |-> ttl, sent |-> at]

\* lines 133-142: next iteration of the for loop (pop a task, append its
\* ClientTask), or back to line 129
MapFor ==
    /\ mpc = "m_for"
    /\ IF cnt = 0
       THEN /\ mpc' = IF DrainCondition(tasks, values, chunk_size)
                      THEN "m_wait" ELSE "m_time"
            /\ client' = NoClient
            /\ UNCHANGED <<tasks, task, client_tasks, seq>>
       ELSE /\ task' = Head(tasks)
            /\ tasks' = Tail(tasks)
            /\ client_tasks' = Append(client_tasks,
                   NewClientTask(seq + 1, client, Head(tasks), TimeoutSecs, now))
            /\ seq' = seq + 1
            /\ mpc' = "m_send"
            /\ UNCHANGED client
    /\ UNCHANGED <<sessionVars, values, clients_ready, completed, now,
                   last_time, delta, cnt, k, timed_out, actual_completed,
                   handlerVars, funcSent, received, readyMsgs>>

\* lines 143-145: the data message; BrokenPipeError is swallowed
MapSend ==
    /\ mpc = "m_send"
    /\ received' = IF Connected(client)
                   THEN [received EXCEPT ![client] = @ \cup {task}]
                   ELSE received
    /\ cnt' = cnt - 1
    /\ task' = NoTask
    /\ mpc' = "m_for"
    /\ UNCHANGED <<sessionVars, values, tasks, client_tasks, clients_ready,
                   completed, now, last_time, delta, client, k, timed_out,
                   actual_completed, seq, handlerVars, funcSent, readyMsgs>>

\* lines 147-150; without a sweep, on to lines 159-162
MapTime ==
    /\ mpc = "m_time"
    /\ IF now - last_time > 1
       THEN /\ delta' = now - last_time
            /\ last_time' = now
            /\ k' = 1
            /\ mpc' = "m_decr"
            /\ UNCHANGED <<tasks, values>>
       ELSE /\ tasks' = Refill(tasks, values, chunk_size)[1]
            /\ values' = Refill(tasks, values, chunk_size)[2]
            /\ mpc' = "m_loop"
            /\ UNCHANGED <<delta, last_time, k>>
    /\ UNCHANGED <<sessionVars, client_tasks, clients_ready, completed, now,
                   client, cnt, task, timed_out, actual_completed, seq,
                   handlerVars, funcSent, received, readyMsgs>>

\* lines 151-152: one iteration of the list iterator (by position)
MapDecr ==
    /\ mpc = "m_decr"
    /\ IF k > Len(client_tasks)
       THEN /\ mpc' = "m_filter"
            /\ k' = 0
            /\ UNCHANGED client_tasks
       ELSE /\ client_tasks' = [client_tasks EXCEPT
                                  ![k].time_to_live = @ - delta]
            /\ k' = k + 1
            /\ UNCHANGED mpc
    /\ UNCHANGED <<sessionVars, values, tasks, clients_ready, completed, now,
                   last_time, delta, client, cnt, task, timed_out,
                   actual_completed, seq, handlerVars, funcSent, received,
                   readyMsgs>>

\* line 153
TimedOut(ct) == SelectSeq(ct, LAMBDA t : t.time_to_live < 0)

MapFilter ==
    /\ mpc = "m_filter"
    /\ timed_out' = TimedOut(client_tasks)
    /\ delta' = 0
    /\ mpc' = "m_tloop"
    /\ UNCHANGED <<sessionVars, values, tasks, client_tasks, clients_ready,
                   completed, now, last_time, client, cnt, task, k,
                   actual_completed, seq, handlerVars, funcSent, received,
                   readyMsgs>>

\* mutants of the two definitions below: a remove that tolerates a missing
\* object, and a sweep that forgets to remove
SweepContains_Tolerant(ct, id) == TRUE
SweepRemove_Keep(ct, id) == ct

\* line 156: list.remove raises ValueError when the object is not in the list
SweepContains(ct, id) == PosOfId(ct, id) # 0
SweepRemove(ct, id) == RemoveAt(ct, PosOfId(ct, id))

\* lines 154-157: remove the next timed-out task and queue it again; after
\* the last one, lines 159-162
MapTimeoutRemove ==
    /\ mpc = "m_tloop"
    /\ IF timed_out = <<>>
       THEN /\ tasks' = Refill(tasks, values, chunk_size)[1]
            /\ values' = Refill(tasks, values, chunk_size)[2]
            /\ mpc' = "m_loop"
            /\ UNCHANGED <<client_tasks, timed_out>>
       ELSE IF SweepContains(client_tasks, Head(timed_out).id)
       THEN /\ client_tasks' = SweepRemove(client_tasks, Head(timed_out).id)
            /\ values' = Append(values, Head(timed_out).task)
            /\ timed_out' = Tail(timed_out)
            /\ UNCHANGED <<mpc, tasks>>
       ELSE /\ mpc' = "m_error"
            /\ UNCHANGED <<client_tasks, values, tasks, timed_out>>
    /\ UNCHANGED <<sessionVars, clients_ready, completed, now, last_time,
                   delta, client, cnt, task, k, actual_completed, seq,
                   handlerVars, funcSent, received, readyMsgs>>

\* line 164
MapCollect ==
    /\ mpc = "m_collect"
    /\ actual_completed' = ActualCompleted(completed)
    /\ mpc' = "m_shutdown"
    /\ UNCHANGED <<sessionVars, values, tasks, client_tasks, clients_ready,
                   completed, now, loopVars, seq, handlerVars, funcSent,
                   received, readyMsgs>>

\* lines 165-170: the server stops accepting connections and messages
MapShutdown ==
    /\ mpc = "m_shutdown"
    /\ serving' = FALSE
    /\ mpc' = "m_reset"
    /\ UNCHANGED <<n, chunk_size, is_active, map_function, values, tasks,
                   client_tasks, clients_ready, completed, now, loopVars,
                   actual_completed, seq, handlerVars, funcSent, received,
                   readyMsgs>>

\* lines 172-180: reset and return actual_completed
MapReset ==
    /\ mpc = "m_reset"
    /\ clients_ready' = <<>>
    /\ client_tasks' = <<>>
    /\ tasks' = <<>>
    /\ map_function' = FALSE
    /\ completed' = <<>>
    /\ is_active' = FALSE
    /\ mpc' = "done"
    /\ UNCHANGED <<n, chunk_size, serving, values, now, loopVars,
                   actual_completed, seq, handlerVars, funcSent, received,
                   readyMsgs>>

\* time() advances.  map reads the clock at line 136 (the ghost field) and
\* 147 only; a tick anywhere else commutes with every step up to the next
\* of these two, so ticks are taken right before them.
Tick ==
    /\ mpc \in {"m_for", "m_time"}
    /\ now < MaxTime
    /\ now' = now + 1
    /\ UNCHANGED <<mpc, sessionVars, values, tasks, client_tasks, clients_ready,
                   completed, loopVars, actual_completed, seq, handlerVars,
                   funcSent, received, readyMsgs>>

\* ---------------------------------------------------------------------
\* The callbacks, one thread per connection
\* ---------------------------------------------------------------------

\* mutant: a new client is not sent the function
FunctionMsgsOnConnect_None(mf) == 0

\* lines 203-204: function messages sent to a new client
FunctionMsgsOnConnect(mf) == IF mf THEN 1 ELSE 0

\* a client connects: _on_new_client, lines 201-204
Connect(w) ==
    /\ serving
    /\ hpc[w] = "absent"
    /\ funcSent' = [funcSent EXCEPT ![w] = @ + FunctionMsgsOnConnect(map_function)]
    /\ hpc' = [hpc EXCEPT ![w] = "n_ready"]
    /\ UNCHANGED <<mpc, sessionVars, values, tasks, client_tasks, clients_ready,
                   completed, now, loopVars, actual_completed, seq, hidx,
                   hfound, received, readyMsgs>>

\* line 205
NewClientReady(w) ==
    /\ hpc[w] = "n_ready"
    /\ clients_ready' = Append(clients_ready, w)
    /\ hpc' = [hpc EXCEPT ![w] = "idle"]
    /\ UNCHANGED <<mpc, sessionVars, values, tasks, client_tasks, completed,
                   now, loopVars, actual_completed, seq, hidx, hfound,
                   funcSent, received, readyMsgs>>

\* mutant: _on_message does not look at _is_active
SessionActive_Ignored(a) == TRUE

\* lines 213-214: _on_message returns when the session is not active
SessionActive(a) == a

\* lines 212-218: a ready message.  A message read off the socket before the
\* connection was closed can be handled after line 165, so messages need no
\* serving server.
ReadyMsg(w) ==
    /\ hpc[w] = "idle"
    /\ readyMsgs < MaxReadyMsgs
    /\ readyMsgs' = readyMsgs + 1
    /\ clients_ready' = IF SessionActive(is_active)
                        THEN Append(clients_ready, w)
                        ELSE clients_ready
    /\ UNCHANGED <<mpc, sessionVars, values, tasks, client_tasks, completed,
                   now, loopVars, actual_completed, seq, handlerVars, funcSent,
                   received>>

\* lines 212-223: a result message for a task the client was sent.  A message
\* that is ignored at line 213 counts against MaxReadyMsgs.
ResultMsg(w, i) ==
    /\ hpc[w] = "idle"
    /\ i \in received[w]
    /\ IF SessionActive(is_active)
       THEN /\ hidx' = [hidx EXCEPT ![w] = i]
            /\ hpc' = [hpc EXCEPT ![w] = "r_find"]
            /\ UNCHANGED readyMsgs
       ELSE /\ readyMsgs < MaxReadyMsgs
            /\ readyMsgs' = readyMsgs + 1
            /\ UNCHANGED <<hidx, hpc>>
    /\ UNCHANGED <<mpc, sessionVars, values, tasks, client_tasks, clients_ready,
                   completed, now, loopVars, actual_completed, seq, hfound,
                   funcSent, received>>

\* mutant: the task is looked up by client instead of by index
FindClientTask_ByClient(ct, idx, w) ==
    IF \E j \in DOMAIN ct : ct[j].client = w
    THEN ct[CHOOSE j \in DOMAIN ct :
                /\ ct[j].client = w
                /\ \A m \in 1..(j - 1) : ct[m].client # w].id
    ELSE 0

\* line 224: client_task[0], 0 when the list is empty
FindClientTask(ct, idx, w) ==
    IF \E j \in DOMAIN ct : ct[j].task = idx
    THEN ct[CHOOSE j \in DOMAIN ct :
                /\ ct[j].task = idx
                /\ \A m \in 1..(j - 1) : ct[m].task # idx].id
    ELSE 0

\* mutant: a client whose result is dropped is put back in the ready queue
ReadyAfterDrop_Append(q, w) == Append(q, w)

\* lines 227-228: the return comes before line 231, the ready queue is left
\* as it is
ReadyAfterDrop(q, w) == q

\* lines 224-228
ResultFind(w) ==
    /\ hpc[w] = "r_find"
    /\ IF FindClientTask(client_tasks, hidx[w], w) = 0
       THEN /\ hpc' = [hpc EXCEPT ![w] = "idle"]
            /\ hidx' = [hidx EXCEPT ![w] = NoTask]
            /\ clients_ready' = ReadyAfterDrop(clients_ready, w)
            /\ UNCHANGED hfound
       ELSE /\ hfound' = [hfound EXCEPT
                            ![w] = FindClientTask(client_tasks, hidx[w], w)]
            /\ hpc' = [hpc EXCEPT ![w] = "r_remove"]
            /\ UNCHANGED <<hidx, clients_ready>>
    /\ UNCHANGED <<mpc, sessionVars, values, tasks, client_tasks, completed,
                   now, loopVars, actual_completed, seq, funcSent, received,
                   readyMsgs>>

\* mutant: the result handler forgets to remove the task
ResultRemoveTask_Keep(ct, id) == ct

\* line 226: list.remove raises ValueError when the object is not in the list
ResultRemoveTask(ct, id) == RemoveAt(ct, PosOfId(ct, id))

ResultRemove(w) ==
    /\ hpc[w] = "r_remove"
    /\ IF PosOfId(client_tasks, hfound[w]) # 0
       THEN /\ client_tasks' = ResultRemoveTask(client_tasks, hfound[w])
            /\ hpc' = [hpc EXCEPT ![w] = "r_check"]
            /\ UNCHANGED hidx
       ELSE /\ hpc' = [hpc EXCEPT ![w] = "h_error"]
            /\ hidx' = [hidx EXCEPT ![w] = NoTask]
            /\ UNCHANGED client_tasks
    /\ hfound' = [hfound EXCEPT ![w] = 0]
    /\ UNCHANGED <<mpc, sessionVars, values, tasks, clients_ready, completed,
                   now, loopVars, actual_completed, seq, funcSent, received,
                   readyMsgs>>

\* line 230: the client holds no other task
HoldsNoTask(ct, w) == \A j \in DOMAIN ct : ct[j].client # w

ResultCheck(w) ==
    /\ hpc[w] = "r_check"
    /\ hpc' = [hpc EXCEPT ![w] = IF HoldsNoTask(client_tasks, w)
                                 THEN "r_ready" ELSE "r_append"]
    /\ UNCHANGED <<mpc, sessionVars, values, tasks, client_tasks, clients_ready,
                   completed, now, loopVars, actual_completed, seq, hidx,
                   hfound, funcSent, received, readyMsgs>>

\* line 231
ResultReady(w) ==
    /\ hpc[w] = "r_ready"
    /\ clients_ready' = Append(clients_ready, w)
    /\ hpc' = [hpc EXCEPT ![w] = "r_append"]
    /\ UNCHANGED <<mpc, sessionVars, values, tasks, client_tasks, completed,
                   now, loopVars, actual_completed, seq, hidx, hfound,
                   funcSent, received, readyMsgs>>

\* lines 233-234
ResultAppend(w) ==
    /\ hpc[w] = "r_append"
    /\ completed' = Append(completed, <<hidx[w], Result(hidx[w])>>)
    /\ hpc' = [hpc EXCEPT ![w] = "idle"]
    /\ hidx' = [hidx EXCEPT ![w] = NoTask]
    /\ UNCHANGED <<mpc, sessionVars, values, tasks, client_tasks, clients_ready,
                   now, loopVars, actual_completed, seq, hfound, funcSent,
                   received, readyMsgs>>

\* mutant: the tasks of a lost client are dropped from the in-flight list
ClientTasksAfterLost_Purge(ct, w) == SelectSeq(ct, LAMBDA t : t.client # w)

\* lines 207-210: _on_client_lost touches _clients_ready alone; the tasks the
\* client holds stay in _client_tasks
ClientTasksAfterLost(ct, w) == ct

\* lines 207-209: the connection closes, or its handler raised
ClientLost(w) ==
    /\ serving
    /\ hpc[w] \in {"idle", "h_error"}
    /\ hpc' = [hpc EXCEPT ![w] = IF w \in Range(clients_ready)
                                 THEN "l_remove" ELSE "gone"]
    /\ client_tasks' = ClientTasksAfterLost(client_tasks, w)
    /\ UNCHANGED <<mpc, sessionVars, values, tasks, clients_ready,
                   completed, now, loopVars, actual_completed, seq, hidx,
                   hfound, funcSent, received, readyMsgs>>

\* line 210: list.remove raises ValueError when the client is not in the list
ClientLostRemove(w) ==
    /\ hpc[w] = "l_remove"
    /\ IF PosOf(clients_ready, w) # 0
       THEN /\ clients_ready' = RemoveAt(clients_ready, PosOf(clients_ready, w))
            /\ hpc' = [hpc EXCEPT ![w] = "gone"]
       ELSE /\ hpc' = [hpc EXCEPT ![w] = "l_error"]
            /\ UNCHANGED clients_ready
    /\ UNCHANGED <<mpc, sessionVars, values, tasks, client_tasks, completed,
                   now, loopVars, actual_completed, seq, hidx, hfound,
                   funcSent, received, readyMsgs>>

Next ==
    \/ MapStart
    \/ MapActivate
    \/ MapBroadcast
    \/ MapLoop
    \/ MapWait
    \/ MapPop
    \/ MapFor
    \/ MapSend
    \/ MapTime
    \/ MapDecr
    \/ MapFilter
    \/ MapTimeoutRemove
    \/ MapCollect
    \/ MapShutdown
    \/ MapReset
    \/ Tick
    \/ \E w \in Clients : Connect(w)
    \/ \E w \in Clients : NewClientReady(w)
    \/ \E w \in Clients : ReadyMsg(w)
    \/ \E w \in Clients : \E i \in 0..(MaxN - 1) : ResultMsg(w, i)
    \/ \E w \in Clients : ResultFind(w)
    \/ \E w \in Clients : ResultRemove(w)
    \/ \E w \in Clients : ResultCheck(w)
    \/ \E w \in Clients : ResultReady(w)
    \/ \E w \in Clients : ResultAppend(w)
    \/ \E w \in Clients : ClientLost(w)
    \/ \E w \in Clients : ClientLostRemove(w)

Spec == Init /\ [][Next]_vars

\* ---------------------------------------------------------------------
\* The session with workers that stay connected and answer every task
\* ---------------------------------------------------------------------

\* the steps of map
MapStep ==
    \/ MapStart \/ MapActivate \/ MapBroadcast \/ MapLoop \/ MapWait
    \/ MapPop \/ MapFor \/ MapSend \/ MapTime \/ MapDecr \/ MapFilter
    \/ MapTimeoutRemove \/ MapCollect \/ MapShutdown \/ MapReset

\* the steps of _on_get_result in the handler thread of w, lines 224-233
HandlerStep(w) ==
    \/ ResultFind(w) \/ ResultRemove(w) \/ ResultCheck(w)
    \/ ResultReady(w) \/ ResultAppend(w)

\* a worker answers a data message once: _on_message (lines 213-220) gets
\* the one result message the worker sends for it
WorkerAnswer(w, i) ==
    /\ hpc[w] = "idle"
    /\ i \in received[w]
    /\ received' = [received EXCEPT ![w] = @ \ {i}]
    /\ IF SessionActive(is_active)
       THEN /\ hidx' = [hidx EXCEPT ![w] = i]
            /\ hpc' = [hpc EXCEPT ![w] = "r_find"]
       ELSE UNCHANGED <<hidx, hpc>>
    /\ UNCHANGED <<mpc, sessionVars, values, tasks, client_tasks, clients_ready,
                   completed, now, loopVars, actual_completed, seq, hfound,
                   funcSent, readyMsgs>>

\* every worker has answered what it was sent and the answers are handled
AllAnswered ==
    \A w \in Clients : received[w] = {} /\ hpc[w] \in {"absent", "n_ready", "idle"}

\* time() advances only when nothing is left to answer, so that every
\* result is handled at the clock value of its task's dispatch
PromptTick == AllAnswered /\ Tick

LiveNext ==
    \/ MapStep
    \/ PromptTick
    \/ \E w \in Clients : Connect(w)
    \/ \E w \in Clients : NewClientReady(w)
    \/ \E w \in Clients : \E i \in 0..(MaxN - 1) : WorkerAnswer(w, i)
    \/ \E w \in Clients : HandlerStep(w)

\* no thread, and no worker with something to answer, stops for ever
LiveSpec ==
    /\ Init
    /\ [][LiveNext]_vars
    /\ WF_vars(MapStep)
    /\ \A w \in Clients : WF_vars(NewClientReady(w))
    /\ \A w \in Clients : WF_vars(HandlerStep(w))
    /\ \A w \in Clients : WF_vars(\E i \in 0..(MaxN - 1) : WorkerAnswer(w, i))

\* ---------------------------------------------------------------------
\* Properties
\* ---------------------------------------------------------------------

\* the list map is expected to return: the result of input i at position i
Expected == [j \in 1..n |-> Result(j - 1)]
Returned == mpc \in {"m_shutdown", "m_reset", "done"}
NoDupCompleted ==
    \A a, b \in DOMAIN completed : a # b => completed[a][1] # completed[b][1]

\* C1: when the loop observes tasks, values and client_tasks all empty,
\* completed holds exactly n entries, and the list map returns has length n
\* with the result of index i at position i.
C1_ReturnsEveryResult ==
    /\ mpc = "m_collect" => Len(completed) = n
    /\ mpc = "done" =>
         /\ Len(actual_completed) = n
         /\ \A i \in 0..(n - 1) : actual_completed[i + 1] = Result(i)

\* C2: the returned list does not depend on the order in which the results
\* arrived or on which client ran which task: it is always the same list,
\* the per-index results in index order.
C2_OrderPreservation == Returned => actual_completed = Expected

\* C3: at every tick of the dispatch loop the four containers hold n tasks
\* in all: |completed| + |client_tasks| + |tasks| + |values| = n.
C3_Conservation ==
    mpc = "m_loop" =>
        Len(completed) + Len(client_tasks) + Len(tasks) + Len(values) = n

\* C4: client_tasks never holds two entries for the same task index, also
\* after a task timed out and was dispatched again.
C4_OneEntryPerIndex ==
    \A a, b \in DOMAIN client_tasks :
        a # b => client_tasks[a].task # client_tasks[b].task

\* C4 witness: a task that reached one client is now in flight with another
C4_Redispatched ==
    \E j \in DOMAIN client_tasks : \E w \in Clients :
        /\ w # client_tasks[j].client
        /\ client_tasks[j].task \in received[w]

\* C5: no index is both in client_tasks and in completed.
C5_CompletedNotInFlight == InFlightIdx \cap CompletedIdx = {}

\* C5 witness: a result was recorded while another task is in flight
C5_CompletedWhileInFlight == CompletedIdx # {} /\ InFlightIdx # {}

\* C6: completed never holds two entries with the same index, and a result
\* for an index that is already completed never gets as far as the append
\* to completed (it is dropped), whichever client sends it.
C6_FirstResultWins ==
    /\ NoDupCompleted
    /\ \A w \in Clients : hpc[w] = "r_append" => hidx[w] \notin CompletedIdx

\* C6 witness: a result arrives for an index that is already completed,
\* sent by a client other than the one whose result was recorded first
C6_DuplicateArrives ==
    \E w \in Clients :
        /\ hpc[w] = "r_find"
        /\ hidx[w] \in CompletedIdx
        /\ \E v \in Clients : v # w /\ hidx[w] \in received[v]

\* C7: once an index is in completed, no step puts it in client_tasks, in
\* tasks or in values again.
C7_NeverRedispatched ==
    [][\A i \in CompletedIdx :
          /\ i \notin {client_tasks'[j].task : j \in DOMAIN client_tasks'}
          /\ i \notin Range(tasks')
          /\ i \notin Range(values')]_vars

\* C7 witness: the sweep is about to queue a timed-out task again while
\* another index is already completed
C7_RequeueAfterCompletion ==
    /\ mpc = "m_tloop"
    /\ timed_out # <<>>
    /\ CompletedIdx # {}

\* C8: a client in clients_ready owns no entry of client_tasks.
C8_ReadyHoldsNoTask ==
    \A j \in DOMAIN clients_ready : HoldsNoTask(client_tasks, clients_ready[j])

\* C9: a client that was assigned a task, or is about to be, has been sent
\* the function before.
C9_FunctionBeforeTask ==
    \A w \in Clients :
        (received[w] # {} \/ ~HoldsNoTask(client_tasks, w) \/ client = w)
            => funcSent[w] > 0

\* C9 witness: tasks reached a client that connected before the broadcast of
\* line 126 (two function messages) and one that connected after it (one)
C9_BothKindsOfClient ==
    \E v, w \in Clients :
        /\ received[v] # {} /\ funcSent[v] = 2
        /\ received[w] # {} /\ funcSent[w] = 1

\* C10: the sweep removes an entry only when at least the timeout has passed
\* since the entry was created.
C10_TimeoutFromDispatch ==
    (mpc = "m_tloop" /\ timed_out # <<>>
        /\ SweepContains(client_tasks, Head(timed_out).id))
        => now >= Head(timed_out).sent + TimeoutSecs

\* C13: with no input, map never enters the loop body, creates no ClientTask
\* and sends no data message; a step of map is enabled until it has returned,
\* whatever the clients do, and it returns the empty list.
C13_EmptyInput ==
    n = 0 =>
        /\ mpc \in {"m_start", "m_active", "m_bcast", "m_loop", "m_collect",
                    "m_shutdown", "m_reset", "done"}
        /\ seq = 0
        /\ \A w \in Clients : received[w] = {}
        /\ mpc # "done" => ENABLED MapStep
        /\ mpc = "done" => actual_completed = <<>>

\* C13 witness: map returned for the empty input and no client ever connected
C13_ReturnedWithoutWorker ==
    /\ n = 0
    /\ mpc = "done"
    /\ \A w \in Clients : hpc[w] = "absent"

\* C14: neither remove of an in-flight entry fails: the entry the sweep is
\* about to remove (line 156) and the entry a result handler is about to
\* remove (line 226) are still in client_tasks.
C14_RemoveNeverFails ==
    /\ (mpc = "m_tloop" /\ timed_out # <<>>)
          => PosOfId(client_tasks, Head(timed_out).id) # 0
    /\ \A w \in Clients :
          hpc[w] = "r_remove" => PosOfId(client_tasks, hfound[w]) # 0

\* C11: with workers that stay connected and answer every task at once,
\* map is never left waiting for a ready client (line 130) while every
\* connected worker has answered all it was sent and is outside the ready
\* queue.
C11_NoStarvation ==
    ~(/\ mpc = "m_wait"
      /\ clients_ready = <<>>
      /\ AllAnswered
      /\ \E w \in Clients : hpc[w] = "idle"
      /\ \A w \in Clients : hpc[w] \in {"absent", "idle"})

\* C12: once the task a client was sent has timed out and is in flight with
\* another client, a late reply of the first client is dropped: a result
\* handler goes on to remove an in-flight entry only when the entry belongs
\* to the client that sent the result.
C12_LateReplyDropped ==
    \A w \in Clients :
        (hpc[w] = "r_remove" /\ PosOfId(client_tasks, hfound[w]) # 0)
            => client_tasks[PosOfId(client_tasks, hfound[w])].client = w

\* C15: a client whose _on_client_lost has run is not in the ready queue.
C15_LostClientNotReady ==
    \A w \in Clients : hpc[w] = "gone" => w \notin Range(clients_ready)

\* C16: the steps of _on_client_lost leave client_tasks, tasks, values and
\* completed as they are, and an entry leaves client_tasks only by the sweep
\* (line 156), by the result handler that found it (line 226) or by the reset
\* at the end of map.
C16_DisconnectFrame ==
    [][/\ \A w \in Clients :
            (/\ hpc[w] \in {"idle", "h_error", "l_remove"}
             /\ hpc'[w] \in {"l_remove", "gone", "l_error"}
             /\ hpc'[w] # hpc[w])
                => UNCHANGED <<client_tasks, tasks, values, completed>>
       /\ \A j \in DOMAIN client_tasks :
            PosOfId(client_tasks', client_tasks[j].id) = 0
                => \/ mpc \in {"m_tloop", "m_reset"}
                   \/ \E v \in Clients : /\ hpc[v] = "r_remove"
                                         /\ hfound[v] = client_tasks[j].id]_vars

\* C16 witness: a client is gone and the task it was given is still in flight
C16_GoneClientHoldsTask ==
    \E w \in Clients : hpc[w] = "gone" /\ ~HoldsNoTask(client_tasks, w)

\* C17: a message handled while the session is not active changes neither
\* the ready queue, nor client_tasks, tasks, values or completed, and starts
\* no result handler.
C17_InactiveFrame ==
    [][(~is_active /\ readyMsgs' # readyMsgs)
          => UNCHANGED <<clients_ready, client_tasks, tasks, values,
                         completed, handlerVars>>]_vars

\* C17 witness: a message was handled before line 125 set the session active
C17_MessageBeforeActive == mpc = "m_active" /\ readyMsgs > 0

\* C18: the ready queue is a FIFO: a dispatch decision takes its head, every
\* other step leaves it alone, appends one client at its tail, or is the
\* remove of _on_client_lost (or the reset at the end of map).
C18_FifoReady ==
    [][\/ clients_ready' = clients_ready
       \/ \E w \in Clients : clients_ready' = Append(clients_ready, w)
       \/ /\ mpc = "m_pop"
          /\ clients_ready # <<>>
          /\ client' = Head(clients_ready)
          /\ clients_ready' = Tail(clients_ready)
       \/ \E w \in Clients :
             /\ hpc[w] = "l_remove"
             /\ clients_ready' = RemoveAt(clients_ready, PosOf(clients_ready, w))
       \/ mpc = "m_reset" /\ clients_ready' = <<>>]_vars

\* C18 witness: a dispatch decision is taken with two clients in the queue
C18_TwoClientsQueued ==
    /\ mpc = "m_pop"
    /\ Len(clients_ready) >= 2
    /\ clients_ready[1] # clients_ready[2]

\* C19: tasks never holds more than chunk_size tasks; a dispatch decision
\* hands out min(chunk_size, |tasks|) tasks, each taken from the head of
\* tasks and given to the one client popped for the decision.
C19_Chunking ==
    /\ [](Len(tasks) <= chunk_size /\ cnt <= chunk_size)
    /\ [][/\ (mpc = "m_pop" /\ mpc' = "m_for")
               => cnt' = Min(chunk_size, Len(tasks))
          /\ (mpc = "m_for" /\ mpc' = "m_send")
               => /\ tasks' = Tail(tasks)
                  /\ client' = client
                  /\ Len(client_tasks') = Len(client_tasks) + 1
                  /\ SubSeq(client_tasks', 1, Len(client_tasks)) = client_tasks
                  /\ client_tasks'[Len(client_tasks')].task = Head(tasks)
                  /\ client_tasks'[Len(client_tasks')].client = client
          /\ (mpc = "m_send" /\ mpc' = "m_for") => cnt' = cnt - 1]_vars

\* C19 witness: one decision gave two tasks to the same client
C19_ChunkOfTwo ==
    /\ mpc = "m_for"
    /\ cnt = 0
    /\ \E a, b \in DOMAIN client_tasks :
          /\ a # b
          /\ client_tasks[a].client = client
          /\ client_tasks[b].client = client

\* C20: a result whose index has no in-flight entry is dropped without any
\* effect: client_tasks, tasks, values, completed and the ready queue stay
\* as they are, so the sender is not put back in the ready queue.
C20_DropFrame ==
    [][\A w \in Clients :
          (hpc[w] = "r_find" /\ hpc'[w] = "idle")
             => UNCHANGED <<client_tasks, tasks, values, completed,
                            clients_ready>>]_vars

\* C20 witness: the result about to be dropped comes from a client that holds
\* no task and is not in the ready queue
C20_DropFromIdleClient ==
    \E w \in Clients :
        /\ hpc[w] = "r_find"
        /\ FindClientTask(client_tasks, hidx[w], w) = 0
        /\ HoldsNoTask(client_tasks, w)
        /\ w \notin Range(clients_ready)
====
